---- MODULE Spec2Model ----
(***************************************************************************)
(* CacheClient of redis-mongoose-cache (src/src/index.ts): a read-through  *)
(* cache that puts a Redis hash layer in front of Mongoose models.         *)
(*                                                                         *)
(* JavaScript values are records [t |-> typeof x, v |-> String(x)], so     *)
(* that typeof, truthiness and the string conversion Redis applies to a    *)
(* command argument are all computed from the value itself.                *)
(***************************************************************************)
EXTENDS Naturals, Sequences, FiniteSets, TLC

\* ------------------------------------------------------------------------
\* JavaScript values
\* ------------------------------------------------------------------------

JSString(s) == [t |-> "string", v |-> s]

JSTrue == [t |-> "boolean", v |-> "true"]

JSFalse == [t |-> "boolean", v |-> "false"]

JSNumber(s) == [t |-> "number", v |-> s]

JSNull == [t |-> "object", v |-> "null"]

JSUndefined == [t |-> "undefined", v |-> "undefined"]

\* the empty array that parse() builds for a non-string input
JSEmptyArray == [t |-> "object", v |-> ""]

\* a document or a mapping returned whole (getAll)
JSObject == [t |-> "object", v |-> "[object Object]"]

\* the outcome of an evaluation that threw
Thrown == [t |-> "throw", v |-> "Error"]

TypeOf(x) == x.t

\* String(x), the conversion JSON.parse and the Redis client apply
JSToString(x) == x.v

\* ToBoolean(x): what `if (x)`, `!x` and `x ? a : b` test
Truthy(x) ==
    CASE x.t = "string" -> x.v # ""
      [] x.t = "boolean" -> x.v = "true"
      [] x.t = "number" -> x.v \notin {"0", "NaN"}
      [] x.t = "undefined" -> FALSE
      [] x.t = "object" -> x # JSNull
      [] OTHER -> FALSE

\* The JSON texts of the value universe and the values they denote; every
\* other text of the universe is not JSON and makes JSON.parse throw.
JSONTexts ==
    [s \in {"true", "false", "null", "0", "1", "123", "\"\"", "\"Rex\"",
            "\"true\"", "\"123\""} |->
        CASE s = "true" -> JSTrue
          [] s = "false" -> JSFalse
          [] s = "null" -> JSNull
          [] s = "0" -> JSNumber("0")
          [] s = "1" -> JSNumber("1")
          [] s = "123" -> JSNumber("123")
          [] s = "\"\"" -> JSString("")
          [] s = "\"Rex\"" -> JSString("Rex")
          [] s = "\"true\"" -> JSString("true")
          [] s = "\"123\"" -> JSString("123")]

\* JSON.parse(x): the argument is first converted to a string
JSONParse(x) ==
    IF JSToString(x) \in DOMAIN JSONTexts THEN JSONTexts[JSToString(x)] ELSE Thrown

\* CacheClient.stringify: a string is returned as it is, anything else goes
\* through JSON.parse (sic), which throws on what is not JSON text
stringify(data) == IF TypeOf(data) = "string" THEN data ELSE JSONParse(data)

\* CacheClient.parse on a single value: JSON.parse with the string itself as
\* the fallback; a non-string primitive yields the empty array built from
\* Object.keys, and null makes Object.keys throw
parse(data) ==
    IF TypeOf(data) = "string"
    THEN IF JSONParse(data) = Thrown THEN data ELSE JSONParse(data)
    ELSE IF data \in {JSNull, JSUndefined} THEN Thrown ELSE JSEmptyArray

\* ------------------------------------------------------------------------
\* Universe
\* ------------------------------------------------------------------------

\* a hash field that Redis does not hold (hget replies null)
Absent == JSNull

Ids == {"dog-1"}

Fields == {"name", "isBarking", "isLoud"}

TypeNames == {"Dog", "Cat"}

\* the values callers pass to set: strings, and one native boolean
SetValues ==
    {JSString(""), JSString("true"), JSString("Rex"), JSString("\"true\""), JSTrue}

\* Mongoose models: modelName and the SchemaType instance of each path; DogV2
\* is a later model of the name Dog whose schema also declares isLoud
NoPath == "undeclared"

Models ==
    [Dog |-> [modelName |-> "Dog",
              paths |-> [f \in Fields |->
                  CASE f = "name" -> "String"
                    [] f = "isBarking" -> "Boolean"
                    [] OTHER -> NoPath]],
     Cat |-> [modelName |-> "Cat",
              paths |-> [f \in Fields |->
                  CASE f = "name" -> "String"
                    [] OTHER -> NoPath]],
     DogV2 |-> [modelName |-> "Dog",
                paths |-> [f \in Fields |->
                  CASE f = "name" -> "String"
                    [] OTHER -> "Boolean"]]]

NoModel == "none"

\* the collection a model reads and writes, derived from its modelName
CollectionOf(model) == Models[model].modelName

\* String.prototype.toLowerCase on the SchemaType instance names
ToLowerCase(s) ==
    CASE s = "String" -> "string"
      [] s = "Boolean" -> "boolean"
      [] s = "Number" -> "number"
      [] OTHER -> s

\* a document that does not exist (findOne replies null)
NoDoc == [exists |-> FALSE, fields |-> [f \in Fields |-> JSUndefined]]

\* bound on the length of the modelNames array
MaxModels == 2

\* bound on the number of init() calls
MaxInits == 2

\* mongoose.connection, the connection that the models of mongoose.model()
\* are bound to; the connections of createConnection() are numbered from 1
DefaultConn == 0

\* ------------------------------------------------------------------------
\* State
\* ------------------------------------------------------------------------

VARIABLES
    inited,         \* init() has created the Redis client and the connection
    inits,          \* number of init() calls made
    redisOnce,      \* the init() calls whose Redis client is not ready yet
    mongoOnce,      \* the init() calls whose once("open") handler has not run
    modelConn,      \* modelName -> the connection its model is bound to
    models,         \* this.models: modelName -> model
    modelNames,     \* this.modelNames: array of registered names
    ready,          \* this.ready
    redisStatus,    \* this.redisStatus
    mongooseStatus, \* this.mongooseStatus
    readyEmitted,   \* number of "ready" events emitted
    initPromise,    \* the promise init() returned: none, pending, resolved
    passed,         \* the models passed to model(), in call order
    readyListeners, \* the once("ready") listeners of the client, oldest first
    redis,          \* the Redis hashes: key -> field -> string or Absent
    redisQueue,     \* the callers whose Redis command awaits its reply, oldest first
    mongo,          \* the MongoDB collections: modelName -> _id -> document
    calls,          \* the get/getAll/set invocations, one per caller
    fn              \* one evaluation of stringify, parse or mongooseCastCheck

vars == <<inited, inits, redisOnce, mongoOnce, modelConn, models, modelNames, ready, redisStatus, mongooseStatus,
          readyEmitted, initPromise, passed, readyListeners, redis, redisQueue,
          mongo, calls, fn>>

\* all of the client and of the backing layers
stateVars == <<inited, inits, redisOnce, mongoOnce, modelConn, models, modelNames, ready, redisStatus, mongooseStatus,
               readyEmitted, initPromise, passed, readyListeners, redis, redisQueue,
               mongo, calls>>

clientVars == <<inited, inits, redisOnce, mongoOnce, modelConn, models, modelNames, ready, redisStatus, mongooseStatus,
                readyEmitted, initPromise, passed, readyListeners>>

\* the single caller that issues one call after the other
Callers == {"c1"}

NoFields == [f \in Fields |-> JSUndefined]

\* a caller that has not called anything yet; known, rs and ms record the
\* registry and the two status flags as they are when a call is made, prev
\* the call made just before it, and the three counters the calls that it
\* issues to the backing layers; executed and doc hold what MongoDB has done
\* with the operation in flight, until its promise settles; client is the
\* Redis client (this.redis) and conn the connection of the model the call
\* uses
Idle ==
    [op |-> "none", type |-> "", hash |-> "", key |-> "", value |-> JSUndefined,
     pc |-> "idle", settled |-> "pending", result |-> JSUndefined,
     fields |-> NoFields, error |-> "", lost |-> "",
     model |-> NoModel, reply |-> Absent, replyAll |-> [f \in Fields |-> Absent],
     redisCalls |-> 0, mongoCalls |-> 0, redisWrites |-> 0,
     known |-> FALSE, rs |-> FALSE, ms |-> FALSE,
     prev |-> [kind |-> "none", value |-> JSUndefined],
     executed |-> FALSE, doc |-> NoDoc, client |-> 0, conn |-> DefaultConn]

\* no helper evaluation under way
NoFn ==
    [model |-> "Dog", field |-> "name", value |-> JSUndefined, pc |-> "none",
     out |-> JSUndefined, msg |-> ""]

\* a client as its constructor leaves it, with empty backing layers
InitState(callers, ids) ==
    /\ inited = FALSE
    /\ inits = 0
    /\ redisOnce = {}
    /\ mongoOnce = {}
    /\ modelConn = [n \in TypeNames |-> DefaultConn]
    /\ models = [n \in TypeNames |-> NoModel]
    /\ modelNames = <<>>
    /\ ready = FALSE
    /\ redisStatus = FALSE
    /\ mongooseStatus = FALSE
    /\ readyEmitted = 0
    /\ initPromise = "none"
    /\ passed = <<>>
    /\ readyListeners = <<>>
    /\ redis = [k \in ids |-> [f \in Fields |-> Absent]]
    /\ redisQueue = <<>>
    /\ mongo = [n \in TypeNames |-> [k \in ids |-> NoDoc]]
    /\ calls = [c \in callers |-> Idle]

Init == InitState(Callers, Ids) /\ fn = NoFn

\* ------------------------------------------------------------------------
\* Lifecycle and registration
\* ------------------------------------------------------------------------

\* CacheClient.init: creates a Redis client, connects Mongoose, installs a
\* pair of once-handlers and returns a new promise; nothing keeps it from
\* being called again
InitClient ==
    /\ inits < MaxInits
    /\ inits' = inits + 1
    /\ inited' = TRUE
    /\ redisOnce' = redisOnce \cup {inits + 1}
    /\ mongoOnce' = mongoOnce \cup {inits + 1}
    /\ initPromise' = "pending"
    /\ UNCHANGED <<modelConn, models, modelNames, ready, redisStatus,
                   mongooseStatus, readyEmitted, passed, readyListeners, redis,
                   redisQueue, mongo, calls, fn>>

\* resolve() of the promise that init() number i returned; initPromise is
\* the promise of the latest init()
ResolveInit(i) == IF i = inits THEN "resolved" ELSE initPromise

\* a handler that gives the signal without looking at the other status
RedisReadyNoCheck(i) ==
    /\ i \in redisOnce
    /\ redisOnce' = redisOnce \ {i}
    /\ redisStatus' = TRUE
    /\ ready' = TRUE
    /\ readyEmitted' = readyEmitted + 1
    /\ initPromise' = ResolveInit(i)
    /\ UNCHANGED <<inited, inits, mongoOnce, modelConn, models, modelNames,
                   mongooseStatus, passed, readyListeners, redis, redisQueue,
                   mongo, calls, fn>>

\* the once("ready") handler of the Redis client that init() number i
\* created
RedisReady(i) ==
    /\ i \in redisOnce
    /\ redisOnce' = redisOnce \ {i}
    /\ redisStatus' = TRUE
    /\ IF mongooseStatus
       THEN /\ ready' = TRUE
            /\ readyEmitted' = readyEmitted + 1
            /\ initPromise' = ResolveInit(i)
       ELSE UNCHANGED <<ready, readyEmitted, initPromise>>
    /\ UNCHANGED <<inited, inits, mongoOnce, modelConn, models, modelNames,
                   mongooseStatus, passed, readyListeners, redis, redisQueue,
                   mongo, calls, fn>>

\* a handler that sets ready without looking at the other status
MongoOpenNoCheck ==
    /\ mongoOnce # {}
    /\ mongoOnce' = {}
    /\ mongooseStatus' = TRUE
    /\ ready' = TRUE
    /\ readyEmitted' = readyEmitted + Cardinality(mongoOnce)
    /\ initPromise' = IF inits \in mongoOnce THEN "resolved" ELSE initPromise
    /\ UNCHANGED <<inited, inits, redisOnce, modelConn, models, modelNames,
                   redisStatus, passed, readyListeners, redis, redisQueue,
                   mongo, calls, fn>>

\* "open" of mongoose.connection: every init() so far has installed its
\* once("open") handler on this one connection, and they all run, oldest
\* first; whether a connect() on the open connection emits "open" again is
\* up to Mongoose, so a handler installed later may run as well
MongoOpen ==
    /\ mongoOnce # {}
    /\ mongoOnce' = {}
    /\ mongooseStatus' = TRUE
    /\ IF redisStatus
       THEN /\ ready' = TRUE
            /\ readyEmitted' = readyEmitted + Cardinality(mongoOnce)
            /\ initPromise' = IF inits \in mongoOnce THEN "resolved" ELSE initPromise
       ELSE UNCHANGED <<ready, readyEmitted, initPromise>>
    /\ UNCHANGED <<inited, inits, redisOnce, modelConn, models, modelNames,
                   redisStatus, passed, readyListeners, redis, redisQueue,
                   mongo, calls, fn>>

\* a registration that keeps the model a name already has
RegisterModelKeepFirst(m) ==
    /\ Len(modelNames) < MaxModels
    /\ models' = IF models[Models[m].modelName] = NoModel
                 THEN [models EXCEPT ![Models[m].modelName] = m]
                 ELSE models
    /\ modelNames' = Append(modelNames, Models[m].modelName)
    /\ passed' = Append(passed, m)
    /\ UNCHANGED <<inited, inits, redisOnce, mongoOnce, modelConn, ready,
                   redisStatus, mongooseStatus, readyEmitted, initPromise,
                   readyListeners, redis, redisQueue, mongo, calls, fn>>

\* CacheClient.model, one model per call; the model comes from
\* mongoose.model() and is bound to mongoose.connection
RegisterModel(m) ==
    /\ Len(modelNames) < MaxModels
    /\ models' = [models EXCEPT ![Models[m].modelName] = m]
    /\ modelNames' = Append(modelNames, Models[m].modelName)
    /\ passed' = Append(passed, m)
    /\ UNCHANGED <<inited, inits, redisOnce, mongoOnce, modelConn, ready,
                   redisStatus, mongooseStatus, readyEmitted, initPromise,
                   readyListeners, redis, redisQueue, mongo, calls, fn>>

\* the Redis client of init() number k has connected
ClientReady(k) == k \in 1..inits /\ k \notin redisOnce

\* connection k is open
ConnOpen(k) ==
    IF k = DefaultConn THEN mongooseStatus ELSE k \in 1..inits /\ k \notin mongoOnce

\* this.modelNames.indexOf(type) !== -1
Registered(type) == \E i \in DOMAIN modelNames : modelNames[i] = type

\* ------------------------------------------------------------------------
\* Promise plumbing
\* ------------------------------------------------------------------------

\* reject(msg) and resolve(val) settle a promise once; later calls are no-ops
Reject(r, msg) ==
    IF r.settled = "pending" THEN [r EXCEPT !.settled = "rejected", !.error = msg] ELSE r

Resolve(r, val) ==
    IF r.settled = "pending" THEN [r EXCEPT !.settled = "resolved", !.result = val] ELSE r

\* the async executor ends: by returning, or by an exception (a rejected
\* await included) that nothing catches and that leaves the promise as it is
Done(r) == [r EXCEPT !.pc = "done"]

Throw(r, msg) == [r EXCEPT !.pc = "done", !.lost = msg]

\* the executor awaits a promise that never settles
Hang(r, msg) == [r EXCEPT !.pc = "hung", !.lost = msg]

UnknownMsg(type) == "Model \"" \o type \o "\" is unknown."

NotConnectedMsg == "Client is not connected."

NoMongooseMsg == "Cannot connect to Mongoose."

InnerNotConnectedMsg == "Not connected."

\* the message of the Error thrown for a field the schema does not declare
NoPathMsg(model, fieldName) ==
    "Schema for model " \o Models[model].modelName
        \o " does not have a definition for the field \"" \o fieldName \o "\"."

\* the message of the Error thrown for a parsed value of another type than
\* the field's; the template prints the parsed value with String()
WrongTypeMsg(model, fieldName, parsed) ==
    "Value " \o JSToString(parsed) \o " is not of the type \""
        \o ToLowerCase(Models[model].paths[fieldName])
        \o "\" required by the field \"" \o fieldName
        \o "\" on the model \"" \o Models[model].modelName \o "\"."

\* the message of the TypeError of Object.keys(null) inside parse
ObjectKeysMsg == "Cannot convert undefined or null to object"

NoPrev == [kind |-> "none", value |-> JSUndefined]

\* what the caller did just before this get, when it bears on the same
\* hash and, but for a getAll, the same key: a set that resolved, a get that
\* filled the cache, a get that found the hash field missing and filled
\* nothing ("miss") or a getAll that read the durable store, each with the
\* two layers reachable; "otherSet" is a set on another collection
PrevOf(old, op, type, hash, key) ==
    IF /\ op = "get" /\ old.pc = "done" /\ old.settled = "resolved"
       /\ old.rs /\ old.ms
       /\ old.hash = hash
    THEN CASE old.type = type /\ old.op = "set" /\ old.key = key ->
                  [kind |-> "set", value |-> old.value]
           [] old.type = type /\ old.op = "get" /\ old.key = key
              /\ old.redisWrites > 0 ->
                  [kind |-> "fill", value |-> old.result]
           [] old.type = type /\ old.op = "get" /\ old.key = key
              /\ old.redisWrites = 0 /\ old.mongoCalls > 0
              /\ old.reply = Absent ->
                  [kind |-> "miss", value |-> old.result]
           [] old.type = type /\ old.op = "getAll" /\ old.mongoCalls > 0 ->
                  [kind |-> "getAll", value |-> old.result]
           [] old.type # type /\ old.op = "set" /\ old.key = key ->
                  [kind |-> "otherSet", value |-> old.value]
           [] OTHER -> NoPrev
    ELSE NoPrev

\* what a call reads of the client before its first await: the registered
\* names, the flags and the Redis client in this.redis
View ==
    [names |-> modelNames, redisStatus |-> redisStatus,
     mongooseStatus |-> mongooseStatus, ready |-> ready, inited |-> inited,
     client |-> inits]

\* names.indexOf(type) !== -1
RegisteredIn(names, type) == \E i \in DOMAIN names : names[i] = type

\* the call recorded under the name c so far
CallOf(c) == IF c \in DOMAIN calls THEN calls[c] ELSE Idle

\* a call made with the client as v describes it
NewCallIn(v, c, op, type, hash, key, value) ==
    [Idle EXCEPT !.op = op, !.type = type, !.hash = hash, !.key = key,
                 !.value = value, !.pc = "run",
                 !.known = RegisteredIn(v.names, type),
                 !.rs = v.redisStatus, !.ms = v.mongooseStatus,
                 !.client = v.client,
                 !.prev = PrevOf(CallOf(c), op, type, hash, key)]

NewCall(c, op, type, hash, key, value) ==
    NewCallIn(View, c, op, type, hash, key, value)

CanCall(c) == calls[c].pc \in {"idle", "done", "hung"}

\* the command queue of the Redis client after caller c has run up to r:
\* replies come back in the order the commands were sent
Enqueue(q, c, r) ==
    IF r.pc \in {"hget", "hgetall", "hset"} THEN Append(q, c) ELSE q

\* ------------------------------------------------------------------------
\* Schema check
\* ------------------------------------------------------------------------

\* a cast check that compares the type of the value as it was passed
mongooseCastCheckNoParse(model, fieldName, value) ==
    IF Models[model].paths[fieldName] = NoPath
    THEN NoPathMsg(model, fieldName)
    ELSE IF TypeOf(value) # ToLowerCase(Models[model].paths[fieldName])
         THEN WrongTypeMsg(model, fieldName, value)
         ELSE ""

\* a cast check that only looks the path up
mongooseCastCheckPathOnly(model, fieldName, value) ==
    IF Models[model].paths[fieldName] = NoPath
    THEN NoPathMsg(model, fieldName)
    ELSE ""

\* CacheClient.mongooseCastCheck: "" when the check passes, otherwise the
\* message of the Error it throws
mongooseCastCheck(model, fieldName, value) ==
    IF Models[model].paths[fieldName] = NoPath
    THEN NoPathMsg(model, fieldName)
    ELSE IF parse(value) = Thrown
         THEN ObjectKeysMsg
         ELSE IF TypeOf(parse(value)) # ToLowerCase(Models[model].paths[fieldName])
              THEN WrongTypeMsg(model, fieldName, parse(value))
              ELSE ""

\* ------------------------------------------------------------------------
\* get
\* ------------------------------------------------------------------------

\* get from `if (!result)` on a miss up to the findOne that getFromMongoose
\* issues
GetMiss(r) ==
    LET r1 == IF ~mongooseStatus THEN Reject(r, NoMongooseMsg) ELSE r
    IN  IF ~Registered(r.type)
        THEN Hang(r1, UnknownMsg(r.type))
        ELSE IF ~ready \/ ~inited
             THEN Throw(r1, InnerNotConnectedMsg)
             ELSE [r1 EXCEPT !.pc = "findOne", !.model = models[r.type],
                             !.conn = modelConn[r.type],
                             !.mongoCalls = @ + 1]

\* get whose rejection of an unknown model does not return
GetStartNoReturn(r0) ==
    LET r1 == IF ~Registered(r0.type) THEN Reject(r0, UnknownMsg(r0.type)) ELSE r0
        r2 == IF ~redisStatus /\ ~mongooseStatus THEN Reject(r1, NotConnectedMsg) ELSE r1
    IN  IF redisStatus
        THEN IF ~ready \/ ~inited
             THEN Throw(r2, InnerNotConnectedMsg)
             ELSE [r2 EXCEPT !.pc = "hget", !.reply = redis[r0.hash][r0.key],
                             !.redisCalls = @ + 1]
        ELSE GetMiss(r2)

\* get up to its first backing-layer call, made with the client as v
\* describes it; the hget is sent at once and Redis executes the commands in
\* the order sent, so the reply is what the hash holds now
GetStartIn(v, r0) ==
    IF ~RegisteredIn(v.names, r0.type)
    THEN Done(Reject(r0, UnknownMsg(r0.type)))
    ELSE LET r1 == IF ~v.redisStatus /\ ~v.mongooseStatus
                   THEN Reject(r0, NotConnectedMsg) ELSE r0
         IN  IF v.redisStatus
             THEN IF ~v.ready \/ ~v.inited
                  THEN Throw(r1, InnerNotConnectedMsg)
                  ELSE [r1 EXCEPT !.pc = "hget", !.reply = redis[r0.hash][r0.key],
                                  !.redisCalls = @ + 1]
             ELSE GetMiss(r1)

GetStart(r0) == GetStartIn(View, r0)

InvokeGet(c, type, hash, key) ==
    /\ CanCall(c)
    /\ calls' = [calls EXCEPT ![c] = GetStart(NewCall(c, "get", type, hash, key, JSUndefined))]
    /\ redisQueue' = Enqueue(redisQueue, c, calls'[c])
    /\ UNCHANGED <<clientVars, redis, mongo, fn>>

\* get after the hget callback
GetAfterRedis(r) ==
    IF ~Truthy(r.reply) THEN GetMiss(r) ELSE Done(Resolve(r, parse(r.reply)))

\* getFromMongoose resolving with doc[field] as it is
FieldOfDocAsIs(doc, field) == doc.fields[field]

\* getFromMongoose: what it resolves with for the document found
FieldOfDoc(doc, field) ==
    IF doc.exists
    THEN IF Truthy(doc.fields[field]) THEN doc.fields[field] ELSE JSNull
    ELSE JSNull

\* the argument conversion of the Redis client: '' + arg
RedisArg(x) == JSString(JSToString(x))

\* a write that stores the key anew, with the one field
HSetWholeKey(db, key, field, value) ==
    [db EXCEPT ![key] = [f \in Fields |-> IF f = field THEN value ELSE Absent]]

\* this.redis.hset(key, field, value): sets the one field of the hash
HSet(db, key, field, value) == [db EXCEPT ![key][field] = value]

\* ------------------------------------------------------------------------
\* getAll
\* ------------------------------------------------------------------------

\* getAll whose getAllFromMongoose does not test the connection
GetAllMissNoGuard(r) ==
    LET r1 == IF ~mongooseStatus THEN Reject(r, NoMongooseMsg) ELSE r
    IN  IF ~Registered(r.type)
        THEN Hang(r1, UnknownMsg(r.type))
        ELSE [r1 EXCEPT !.pc = "findAll", !.model = models[r.type],
                             !.conn = modelConn[r.type],
                        !.mongoCalls = @ + 1]

\* getAll on a miss up to the findOne that getAllFromMongoose issues
GetAllMiss(r) ==
    LET r1 == IF ~mongooseStatus THEN Reject(r, NoMongooseMsg) ELSE r
    IN  IF ~Registered(r.type)
        THEN Hang(r1, UnknownMsg(r.type))
        ELSE IF ~mongooseStatus \/ ~inited
             THEN Throw(r1, InnerNotConnectedMsg)
             ELSE [r1 EXCEPT !.pc = "findAll", !.model = models[r.type],
                             !.conn = modelConn[r.type],
                             !.mongoCalls = @ + 1]

\* getAll up to its first backing-layer call
GetAllStartIn(v, r0) ==
    IF ~RegisteredIn(v.names, r0.type)
    THEN Done(Reject(r0, UnknownMsg(r0.type)))
    ELSE LET r1 == IF ~v.redisStatus /\ ~v.mongooseStatus
                   THEN Reject(r0, NotConnectedMsg) ELSE r0
         IN  IF v.redisStatus
             THEN IF ~v.ready \/ ~v.inited
                  THEN Throw(r1, InnerNotConnectedMsg)
                  ELSE [r1 EXCEPT !.pc = "hgetall", !.replyAll = redis[r0.hash],
                                  !.redisCalls = @ + 1]
             ELSE GetAllMiss(r1)

GetAllStart(r0) == GetAllStartIn(View, r0)

InvokeGetAll(c, type, hash) ==
    /\ CanCall(c)
    /\ calls' = [calls EXCEPT ![c] = GetAllStart(NewCall(c, "getAll", type, hash, "", JSUndefined))]
    /\ redisQueue' = Enqueue(redisQueue, c, calls'[c])
    /\ UNCHANGED <<clientVars, redis, mongo, fn>>

\* hgetall replies null for a key without fields
NullHash(h) == \A f \in Fields : h[f] = Absent

\* CacheClient.parse on a mapping: every field parsed on its own
parseAll(h) == [f \in Fields |-> IF h[f] = Absent THEN JSUndefined ELSE parse(h[f])]

GetAllAfterRedis(r) ==
    IF NullHash(r.replyAll)
    THEN GetAllMiss(r)
    ELSE Done([Resolve(r, JSEmptyArray) EXCEPT
                 !.fields = IF r.settled = "pending" THEN parseAll(r.replyAll) ELSE @])

\* getAll after findOne with the hit path's parse applied to the document
GetAllAfterMongooseParsed(r, doc) ==
    Done([Resolve(r, IF doc.exists THEN JSObject ELSE JSNull) EXCEPT
            !.fields = IF r.settled = "pending"
                       THEN [f \in Fields |-> IF doc.fields[f] = JSUndefined
                                              THEN JSUndefined
                                              ELSE parse(doc.fields[f])]
                       ELSE @])

\* getAll after findOne: resolves with the document as it is
GetAllAfterMongoose(r, doc) ==
    Done([Resolve(r, IF doc.exists THEN JSObject ELSE JSNull) EXCEPT
            !.fields = IF r.settled = "pending" THEN doc.fields ELSE @])

\* ------------------------------------------------------------------------
\* set
\* ------------------------------------------------------------------------

\* set that does not await setMongoose: it resolves once updateOne is issued
SetAfterRedisNoAwait(r) ==
    LET r1 == IF ~mongooseStatus THEN Reject(r, NoMongooseMsg) ELSE r
    IN  IF ~Registered(r.type)
        THEN Hang(r1, UnknownMsg(r.type))
        ELSE IF ~mongooseStatus \/ ~inited
             THEN Throw(r1, InnerNotConnectedMsg)
             ELSE IF mongooseCastCheck(models[r.type], r.key, r.value) # ""
                  THEN Hang(r1, mongooseCastCheck(models[r.type], r.key, r.value))
                  ELSE [Resolve(r1, JSTrue) EXCEPT
                           !.pc = "updateOne", !.model = models[r.type],
                             !.conn = modelConn[r.type],
                           !.mongoCalls = @ + 1]

\* set after the fast-layer write up to the updateOne that setMongoose issues
SetAfterRedis(r) ==
    LET r1 == IF ~mongooseStatus THEN Reject(r, NoMongooseMsg) ELSE r
    IN  IF ~Registered(r.type)
        THEN Hang(r1, UnknownMsg(r.type))
        ELSE IF ~mongooseStatus \/ ~inited
             THEN Throw(r1, InnerNotConnectedMsg)
             ELSE IF mongooseCastCheck(models[r.type], r.key, r.value) # ""
                  THEN Hang(r1, mongooseCastCheck(models[r.type], r.key, r.value))
                  ELSE [r1 EXCEPT !.pc = "updateOne", !.model = models[r.type],
                             !.conn = modelConn[r.type],
                                  !.mongoCalls = @ + 1]

\* set that validates against the schema before it writes the fast layer
SetStartValidateFirst(r0) ==
    IF ~Registered(r0.type)
    THEN Done(Reject(r0, UnknownMsg(r0.type)))
    ELSE LET r1 == IF ~redisStatus /\ ~mongooseStatus
                   THEN Reject(r0, NotConnectedMsg) ELSE r0
         IN  IF redisStatus
             THEN IF stringify(r0.value) = Thrown
                  THEN Throw(r1, "SyntaxError")
                  ELSE IF ~ready \/ ~inited
                       THEN Throw(r1, InnerNotConnectedMsg)
                       ELSE IF mongooseCastCheck(models[r0.type], r0.key, r0.value) # ""
                            THEN Hang(r1, mongooseCastCheck(models[r0.type], r0.key, r0.value))
                            ELSE [r1 EXCEPT !.pc = "hset", !.redisCalls = @ + 1,
                                            !.redisWrites = @ + 1]
             ELSE SetAfterRedis(r1)

\* set without the test of the two status flags
SetStartNoStatusCheck(r0) ==
    IF ~Registered(r0.type)
    THEN Done(Reject(r0, UnknownMsg(r0.type)))
    ELSE IF redisStatus
         THEN IF stringify(r0.value) = Thrown
              THEN Throw(r0, "SyntaxError")
              ELSE IF ~ready \/ ~inited
                   THEN Throw(r0, InnerNotConnectedMsg)
                   ELSE [r0 EXCEPT !.pc = "hset", !.redisCalls = @ + 1,
                                   !.redisWrites = @ + 1]
         ELSE SetAfterRedis(r0)

\* set before its fast-layer write: the checks of set and of setToRedis
SetStartIn(v, r0) ==
    IF ~RegisteredIn(v.names, r0.type)
    THEN Done(Reject(r0, UnknownMsg(r0.type)))
    ELSE LET r1 == IF ~v.redisStatus /\ ~v.mongooseStatus
                   THEN Reject(r0, NotConnectedMsg) ELSE r0
         IN  IF v.redisStatus
             THEN IF stringify(r0.value) = Thrown
                  THEN Throw(r1, "SyntaxError")
                  ELSE IF ~v.ready \/ ~v.inited
                       THEN Throw(r1, InnerNotConnectedMsg)
                       ELSE [r1 EXCEPT !.pc = "hset", !.redisCalls = @ + 1,
                                       !.redisWrites = @ + 1]
             ELSE SetAfterRedis(r1)

SetStart(r0) == SetStartIn(View, r0)

InvokeSet(c, type, hash, key, value) ==
    /\ CanCall(c)
    /\ LET r == SetStart(NewCall(c, "set", type, hash, key, value))
       IN  /\ calls' = [calls EXCEPT ![c] = r]
           /\ redis' = IF r.pc = "hset"
                       THEN HSet(redis, hash, key, RedisArg(stringify(value)))
                       ELSE redis
           /\ redisQueue' = Enqueue(redisQueue, c, r)
    /\ UNCHANGED <<clientVars, mongo, fn>>

\* ------------------------------------------------------------------------
\* Replies of the backing layers
\* ------------------------------------------------------------------------

\* the err argument of a Redis callback: null, or the error of the reply
RedisErrors == {"", "ECONNRESET"}

\* (err, res) => err ? reject(err) : resolve(res), and what the caller does
\* next: the rejected await throws inside the async executor of get, getAll
\* or set
AfterRedis(r, err) ==
    IF err # ""
    THEN Throw(r, err)
    ELSE CASE r.pc = "hget" -> GetAfterRedis(r)
           [] r.pc = "hgetall" -> GetAllAfterRedis(r)
           [] r.pc = "hset" -> SetAfterRedis(r)

\* the queue without its element at position i
Without(q, i) == SubSeq(q, 1, i - 1) \o SubSeq(q, i + 1, Len(q))

\* the callback of hget, hgetall or hset runs: the client that the command
\* was sent on is connected, and it is the oldest command of that client
RedisReply(c) ==
    /\ calls[c].pc \in {"hget", "hgetall", "hset"}
    /\ ClientReady(calls[c].client)
    /\ \E i \in DOMAIN redisQueue :
          /\ redisQueue[i] = c
          /\ \A j \in 1..(i - 1) : calls[redisQueue[j]].client # calls[c].client
          /\ redisQueue' = Without(redisQueue, i)
    /\ \E err \in RedisErrors :
          calls' = [calls EXCEPT ![c] = AfterRedis(@, err)]
    /\ UNCHANGED <<clientVars, redis, mongo, fn>>

\* get after findOne: the read-through fill, not awaited, then resolve
GetAfterMongoose(r, val) ==
    IF Truthy(val)
    THEN IF stringify(val) = Thrown
         THEN Throw(r, "SyntaxError")
         ELSE IF ~ready \/ ~inited
              THEN Done(Resolve(r, val))
              ELSE Done([Resolve(r, val) EXCEPT !.redisCalls = @ + 1,
                                                !.redisWrites = @ + 1])
    ELSE Done(Resolve(r, val))

\* the update document of setMongoose: { [field]: this.parse(value) }
UpdateDoc(value) == parse(value)

\* an update that replaces the document by the update document
UpdateOneReplace(coll, id, field, value) ==
    [coll EXCEPT ![id] = [exists |-> TRUE,
                          fields |-> [NoFields EXCEPT ![field] = value]]]

\* model.updateOne({_id}, {[field]: value}, {upsert: true})
UpdateOne(coll, id, field, value) ==
    [coll EXCEPT ![id] = [exists |-> TRUE,
                          fields |-> [@.fields EXCEPT ![field] = value]]]

\* the reason a Mongoose promise rejects with: none, or a network error
MongoErrors == {"", "MongoNetworkError"}

\* MongoDB executes the findOne or updateOne of caller c, which Mongoose
\* sends once the connection of the model is open; the reply is on its way
MongoExec(c) ==
    /\ calls[c].pc \in {"findOne", "findAll", "updateOne"}
    /\ ~calls[c].executed
    /\ ConnOpen(calls[c].conn)
    /\ LET r == calls[c]
           coll == CollectionOf(r.model)
       IN  /\ calls' = [calls EXCEPT ![c].executed = TRUE,
                                     ![c].doc = IF r.pc = "updateOne"
                                                THEN NoDoc
                                                ELSE mongo[coll][r.hash]]
           /\ mongo' = IF r.pc = "updateOne"
                       THEN [mongo EXCEPT ![coll] =
                               UpdateOne(@, r.hash, r.key, UpdateDoc(r.value))]
                       ELSE mongo
    /\ UNCHANGED <<clientVars, redis, redisQueue, fn>>

\* the promise of findOne or updateOne settles: it resolves with the reply
\* of the operation executed, or it rejects, whatever MongoDB did with the
\* operation before, and the exception is lost inside the async executor of
\* the Mongoose helper
MongoReply(c) ==
    /\ calls[c].pc \in {"findOne", "findAll", "updateOne"}
    /\ \E err \in MongoErrors :
          LET r == [calls[c] EXCEPT !.executed = FALSE, !.doc = NoDoc]
              doc == calls[c].doc
              val == FieldOfDoc(doc, r.key)
              g == GetAfterMongoose(r, val)
          IN  IF err # ""
              THEN /\ calls' = [calls EXCEPT ![c] = Hang(r, err)]
                   /\ redis' = redis
              ELSE /\ calls[c].executed
                   /\ CASE r.pc = "findOne" ->
                            /\ calls' = [calls EXCEPT ![c] = g]
                            /\ redis' = IF g.redisWrites > r.redisWrites
                                        THEN HSet(redis, r.hash, r.key,
                                                  RedisArg(stringify(val)))
                                        ELSE redis
                        [] r.pc = "findAll" ->
                            /\ calls' = [calls EXCEPT ![c] = GetAllAfterMongoose(r, doc)]
                            /\ redis' = redis
                        [] r.pc = "updateOne" ->
                            /\ calls' = [calls EXCEPT ![c] = Done(Resolve(r, JSTrue))]
                            /\ redis' = redis
    /\ UNCHANGED <<clientVars, redisQueue, mongo, fn>>

\* ------------------------------------------------------------------------
\* The compiled build: model() registers in a listener of "ready"
\* ------------------------------------------------------------------------

\* a listener of "ready" is the one that model() installs for a model, or
\* one of the application that calls the cache
NoCall ==
    [c |-> "", op |-> "none", type |-> "", hash |-> "", key |-> "",
     value |-> JSUndefined]

ModelListener(m) == [model |-> m, call |-> NoCall]

AppListener(c, op, type, hash, key, value) ==
    [model |-> NoModel,
     call |-> [c |-> c, op |-> op, type |-> type, hash |-> hash, key |-> key,
               value |-> value]]

IsModelListener(e) == e.model # NoModel

\* the application installs its listener with on("ready", ...)
IsAppListener(e) == ~IsModelListener(e)

\* the models of the listeners of model() in seq, in their order
ModelsIn(seq) ==
    LET sel == SelectSeq(seq, IsModelListener)
    IN  [i \in DOMAIN sel |-> sel[i].model]

\* this.models after the listeners of model() for ms have run, oldest
\* first; the model that this.mongo.model(modelName, schema) returns has the
\* name and the schema of the model passed
RECURSIVE ListenersModels(_, _)
ListenersModels(reg, ms) ==
    IF ms = <<>> THEN reg
    ELSE ListenersModels([reg EXCEPT ![Models[Head(ms)].modelName] = Head(ms)],
                         Tail(ms))

\* the names those listeners push to this.modelNames
ListenersNames(ms) == [i \in DOMAIN ms |-> Models[ms[i]].modelName]

\* the client as the listener at position i finds it: both flags and ready
\* are set, and the listeners before it have run
ViewAt(i) ==
    [names |-> modelNames \o ListenersNames(ModelsIn(SubSeq(readyListeners, 1, i - 1))),
     redisStatus |-> TRUE, mongooseStatus |-> TRUE, ready |-> TRUE,
     inited |-> TRUE, client |-> inits]

\* the name under which a call that the listener of caller c makes is
\* recorded: c, or, while the call recorded under that name is still
\* running, the name with a prime, so that each run of the listener has
\* its own call
RECURSIVE ListenerCaller(_)
ListenerCaller(c) ==
    IF c \notin DOMAIN calls THEN c
    ELSE IF CanCall(c) THEN c
         ELSE ListenerCaller(c \o "'")

\* the call that the application's listener at position i makes, up to its
\* first await
ListenerCall(i) ==
    LET k == readyListeners[i].call
        r0 == NewCallIn(ViewAt(i), ListenerCaller(k.c), k.op, k.type, k.hash,
                        k.key, k.value)
    IN  CASE k.op = "get" -> GetStartIn(ViewAt(i), r0)
          [] k.op = "getAll" -> GetAllStartIn(ViewAt(i), r0)
          [] k.op = "set" -> SetStartIn(ViewAt(i), r0)

\* the positions of the application's listeners
AppListeners == {i \in DOMAIN readyListeners : IsAppListener(readyListeners[i])}

\* this.ready = true; this.emit("ready"); resolve(), in the handler of
\* init() number n: emit runs the listeners in the order installed, removes
\* the once-listeners of model() and keeps the on-listener of the
\* application, which runs again at every later emission. A listener of
\* model() registers its model, bound to the connection in this.mongo; the
\* application's listener makes its call, and finds registered only what
\* the listeners before it have registered
DistEmitReady(n) ==
    /\ ready' = TRUE
    /\ readyEmitted' = readyEmitted + 1
    /\ models' = ListenersModels(models, ModelsIn(readyListeners))
    /\ modelNames' = modelNames \o ListenersNames(ModelsIn(readyListeners))
    /\ modelConn' = [t \in TypeNames |->
                       IF \E i \in DOMAIN readyListeners :
                             /\ IsModelListener(readyListeners[i])
                             /\ Models[readyListeners[i].model].modelName = t
                       THEN inits
                       ELSE modelConn[t]]
    /\ readyListeners' = SelectSeq(readyListeners, IsAppListener)
    /\ IF AppListeners = {}
       THEN UNCHANGED <<calls, redis, redisQueue>>
       ELSE LET i == CHOOSE j \in AppListeners : TRUE
                k == readyListeners[i].call
                c == ListenerCaller(k.c)
                r == ListenerCall(i)
            IN  /\ calls' = [d \in DOMAIN calls \cup {c} |->
                               IF d = c THEN r ELSE calls[d]]
                /\ redis' = IF r.pc = "hset"
                            THEN HSet(redis, k.hash, k.key, RedisArg(stringify(k.value)))
                            ELSE redis
                /\ redisQueue' = Enqueue(redisQueue, c, r)
    /\ initPromise' = ResolveInit(n)

\* the once("ready") handler of the Redis client that init() number i
\* created
DistRedisReady(i) ==
    /\ i \in redisOnce
    /\ redisOnce' = redisOnce \ {i}
    /\ redisStatus' = TRUE
    /\ IF mongooseStatus
       THEN DistEmitReady(i)
       ELSE UNCHANGED <<ready, readyEmitted, models, modelNames, modelConn,
                        readyListeners, initPromise, calls, redis, redisQueue>>
    /\ UNCHANGED <<inited, inits, mongoOnce, mongooseStatus, passed, mongo, fn>>

\* the once("open") handler of the connection that init() number i created
\* with createConnection
DistMongoOpen(i) ==
    /\ i \in mongoOnce
    /\ mongoOnce' = mongoOnce \ {i}
    /\ mongooseStatus' = TRUE
    /\ IF redisStatus
       THEN DistEmitReady(i)
       ELSE UNCHANGED <<ready, readyEmitted, models, modelNames, modelConn,
                        readyListeners, initPromise, calls, redis, redisQueue>>
    /\ UNCHANGED <<inited, inits, redisOnce, redisStatus, passed, mongo, fn>>

\* CacheClient.model of the compiled build, one model per call: installs a
\* once("ready") listener and returns
DistModel(m) ==
    /\ Len(passed) < MaxModels
    /\ readyListeners' = Append(readyListeners, ModelListener(m))
    /\ passed' = Append(passed, m)
    /\ UNCHANGED <<inited, inits, redisOnce, mongoOnce, modelConn, models,
                   modelNames, ready, redisStatus, mongooseStatus, readyEmitted,
                   initPromise, redis, redisQueue, mongo, calls, fn>>

\* the application installs a listener of "ready" that makes a call, as the
\* Dog example does; it does so once, before the client is ready
DistOnReady(c, op, type, hash, key, value) ==
    /\ readyEmitted = 0
    /\ AppListeners = {}
    /\ readyListeners' =
          Append(readyListeners, AppListener(c, op, type, hash, key, value))
    /\ UNCHANGED <<inited, inits, redisOnce, mongoOnce, modelConn, models,
                   modelNames, ready, redisStatus, mongooseStatus, readyEmitted,
                   initPromise, passed, redis, redisQueue, mongo, calls, fn>>

\* ------------------------------------------------------------------------
\* Specification
\* ------------------------------------------------------------------------

\* the models the application passes to model()
AppModels == {"Dog"}

\* a caller makes a call, and a backing layer answers one
CallGet ==
    \E c \in DOMAIN calls, type \in TypeNames, hash \in Ids, key \in Fields :
        InvokeGet(c, type, hash, key)

CallGetAll ==
    \E c \in DOMAIN calls, type \in TypeNames, hash \in Ids :
        InvokeGetAll(c, type, hash)

CallSet ==
    \E c \in DOMAIN calls, type \in TypeNames, hash \in Ids, key \in Fields,
       value \in SetValues :
        InvokeSet(c, type, hash, key, value)

CallModel == \E m \in AppModels : RegisterModel(m)

\* the application calls init() once, as the examples do
CallInit == inits = 0 /\ InitClient

\* the Redis client of one of the init() calls gets ready
RedisConnects == \E i \in 1..MaxInits : RedisReady(i)

RedisAnswers == \E c \in DOMAIN calls : RedisReply(c)

MongoExecutes == \E c \in DOMAIN calls : MongoExec(c)

MongoAnswers == \E c \in DOMAIN calls : MongoReply(c)

Next ==
    \/ CallInit
    \/ RedisConnects
    \/ MongoOpen
    \/ CallModel
    \/ CallGet
    \/ CallGetAll
    \/ CallSet
    \/ RedisAnswers
    \/ MongoExecutes
    \/ MongoAnswers

Spec == Init /\ [][Next]_vars

\* the models of an application that registers the name Dog again, with its
\* later schema
RegModels == {"Dog", "DogV2"}

CallModelAgain == \E m \in RegModels : RegisterModel(m)

\* the values that application sets, and the calls it makes on the name Dog
RegValues == {JSString("true"), JSString("Rex")}

CallGetDog ==
    \E c \in DOMAIN calls, hash \in Ids, key \in Fields :
        InvokeGet(c, "Dog", hash, key)

CallGetAllDog ==
    \E c \in DOMAIN calls, hash \in Ids :
        InvokeGetAll(c, "Dog", hash)

CallSetDog ==
    \E c \in DOMAIN calls, hash \in Ids, key \in Fields, value \in RegValues :
        InvokeSet(c, "Dog", hash, key, value)

NextReg ==
    \/ CallInit
    \/ RedisConnects
    \/ MongoOpen
    \/ CallModelAgain
    \/ CallGetDog
    \/ CallGetAllDog
    \/ CallSetDog
    \/ RedisAnswers
    \/ MongoExecutes
    \/ MongoAnswers

SpecReg == Init /\ [][NextReg]_vars

\* two callers whose calls overlap, both on the field name of one Dog record
ConcCallers == {"c1", "c2"}

ConcValues == {JSString("Rex"), JSString("Max")}

InitConc == InitState(ConcCallers, Ids) /\ fn = NoFn

CallGetName ==
    \E c \in DOMAIN calls, hash \in Ids : InvokeGet(c, "Dog", hash, "name")

CallSetName ==
    \E c \in DOMAIN calls, hash \in Ids, value \in ConcValues :
        InvokeSet(c, "Dog", hash, "name", value)

NextConc ==
    \/ CallInit
    \/ RedisConnects
    \/ MongoOpen
    \/ CallModel
    \/ CallGetName
    \/ CallSetName
    \/ RedisAnswers
    \/ MongoExecutes
    \/ MongoAnswers

SpecConc == InitConc /\ [][NextConc]_vars

\* an application with the two collections Dog and Cat and two records,
\* whose ids are the same in both collections
BothModels == {"Dog", "Cat"}

TwoIds == {"dog-1", "dog-2"}

\* the fields that application sets, each with a value of its declared type
TwoEntries ==
    {[key |-> "name", value |-> JSString("Rex")],
     [key |-> "isBarking", value |-> JSString("true")]}

InitTwo == InitState(Callers, TwoIds) /\ fn = NoFn

CallModelBoth == \E m \in BothModels : RegisterModel(m)

CallGetTwo ==
    \E c \in DOMAIN calls, type \in TypeNames, hash \in TwoIds :
        InvokeGet(c, type, hash, "name")

CallSetTwo ==
    \E c \in DOMAIN calls, type \in TypeNames, hash \in TwoIds, e \in TwoEntries :
        InvokeSet(c, type, hash, e.key, e.value)

NextTwo ==
    \/ CallInit
    \/ RedisConnects
    \/ MongoOpen
    \/ CallModelBoth
    \/ CallGetTwo
    \/ CallSetTwo
    \/ RedisAnswers
    \/ MongoExecutes
    \/ MongoAnswers

SpecTwo == InitTwo /\ [][NextTwo]_vars

\* the helpers on their own: the values handed to stringify, parse and
\* mongooseCastCheck, strings and native values
FnValues ==
    {JSString(""), JSString("Rex"), JSString("notabool"), JSString("true"),
     JSString("123"), JSString("\"true\""), JSTrue, JSFalse, JSNumber("123"),
     JSObject}

InitFn ==
    /\ InitState(Callers, Ids)
    /\ fn \in [model : DOMAIN Models, field : Fields, value : FnValues,
                pc : {"input"}, out : {JSUndefined}, msg : {""}]

\* this.stringify(value)
FnStringify ==
    /\ fn.pc = "input"
    /\ fn' = [fn EXCEPT !.pc = "serialized", !.out = stringify(fn.value)]
    /\ UNCHANGED stateVars

\* this.parse applied to what stringify returned
FnParse ==
    /\ fn.pc = "serialized"
    /\ fn' = [fn EXCEPT !.pc = "parsed",
                        !.out = IF fn.out = Thrown THEN Thrown ELSE parse(fn.out)]
    /\ UNCHANGED stateVars

\* this.mongooseCastCheck(model, field, value)
FnCastCheck ==
    /\ fn.pc = "input"
    /\ fn' = [fn EXCEPT !.pc = "checked",
                        !.msg = mongooseCastCheck(fn.model, fn.field, fn.value)]
    /\ UNCHANGED stateVars

NextFn ==
    \/ FnStringify
    \/ FnParse
    \/ FnCastCheck

SpecFn == InitFn /\ [][NextFn]_vars

\* an application that calls init() again, before or after the connections
\* are up, and gets and sets the name of a dog
InitValues == {JSString("Rex")}

CallGetInit ==
    \E c \in DOMAIN calls, hash \in Ids : InvokeGet(c, "Dog", hash, "name")

CallSetInit ==
    \E c \in DOMAIN calls, hash \in Ids, value \in InitValues :
        InvokeSet(c, "Dog", hash, "name", value)

NextInit ==
    \/ InitClient
    \/ RedisConnects
    \/ MongoOpen
    \/ CallModel
    \/ CallGetInit
    \/ CallSetInit
    \/ RedisAnswers
    \/ MongoExecutes
    \/ MongoAnswers

SpecInit == Init /\ [][NextInit]_vars

\* an application on the compiled build: it passes Dog to model(), before
\* or after the connections are up, installs a listener of "ready", and
\* gets and sets the name of a dog
DistModels == {"Dog"}

CallModelDist == \E m \in DistModels : DistModel(m)

DistRedisConnects == \E i \in 1..MaxInits : DistRedisReady(i)

DistMongoOpens == \E i \in 1..MaxInits : DistMongoOpen(i)

\* the listener of the application: one call on the name of a dog
CallOnReady ==
    \E c \in Callers, op \in {"get", "getAll", "set"}, hash \in Ids :
        DistOnReady(c, op, "Dog", hash,
                    IF op = "getAll" THEN "" ELSE "name",
                    IF op = "set" THEN JSString("Rex") ELSE JSUndefined)

\* the calls that the application makes itself, one after the other
CallGetDist ==
    \E c \in Callers, hash \in Ids : InvokeGet(c, "Dog", hash, "name")

CallGetAllDist ==
    \E c \in Callers, hash \in Ids : InvokeGetAll(c, "Dog", hash)

CallSetDist ==
    \E c \in Callers, hash \in Ids, value \in InitValues :
        InvokeSet(c, "Dog", hash, "name", value)

NextDist ==
    \/ InitClient
    \/ DistRedisConnects
    \/ DistMongoOpens
    \/ CallModelDist
    \/ CallOnReady
    \/ CallGetDist
    \/ CallGetAllDist
    \/ CallSetDist
    \/ RedisAnswers
    \/ MongoExecutes
    \/ MongoAnswers

SpecDist == Init /\ [][NextDist]_vars

\* an application whose collections Dog and Cat share the id of a record,
\* and that sets the name of either to a name or to the empty string
ShareValues == {JSString(""), JSString("Rex")}

CallGetShare ==
    \E c \in DOMAIN calls, type \in TypeNames, hash \in Ids :
        InvokeGet(c, type, hash, "name")

CallSetShare ==
    \E c \in DOMAIN calls, type \in TypeNames, hash \in Ids,
       value \in ShareValues :
        InvokeSet(c, type, hash, "name", value)

NextShare ==
    \/ CallInit
    \/ RedisConnects
    \/ MongoOpen
    \/ CallModelBoth
    \/ CallGetShare
    \/ CallSetShare
    \/ RedisAnswers
    \/ MongoExecutes
    \/ MongoAnswers

SpecShare == Init /\ [][NextShare]_vars

\* ------------------------------------------------------------------------
\* Properties
\* ------------------------------------------------------------------------

\* the call has run as far as it ever will
Ended(r) == r.pc \in {"done", "hung"}

\* a backing layer answered the call with an error: the layer was not
\* reachable for it
BackendError(r) == r.lost # "" /\ r.lost \in RedisErrors \cup MongoErrors

\* the field is declared by the schema of the model registered under type
Declared(type, key) == Models[models[type]].paths[key] # NoPath

\* the deserialized value has the declared type of the field
TypeMatches(type, key, value) ==
    /\ Declared(type, key)
    /\ \/ Models[models[type]].paths[key] = "String" /\ TypeOf(parse(value)) = "string"
       \/ Models[models[type]].paths[key] = "Boolean" /\ TypeOf(parse(value)) = "boolean"

\* the call is a set on a registered collection that violates its schema
ViolatingSet(r) ==
    /\ r.op = "set"
    /\ r.known
    /\ ~TypeMatches(r.type, r.key, r.value)

\* the call took the step (its invocation included)
StepOf(c) == calls'[c] # calls[c]

\* C1: after a set that resolved with both layers reachable, the next get of
\* the same (type, hash, key) resolves to the deserialization of the value set
C1_SetThenGet ==
    \A c \in DOMAIN calls :
        (calls[c].op = "get" /\ Ended(calls[c]) /\ calls[c].prev.kind = "set")
        => /\ calls[c].settled = "resolved"
           /\ calls[c].result = parse(calls[c].prev.value)

\* C2: a call that names a collection never registered is rejected with the
\* unknown-model message and issues no call to either layer, whatever the
\* connectivity
C2_UnknownCollection ==
    \A c \in DOMAIN calls :
        (calls[c].op # "none" /\ ~calls[c].known)
        => /\ calls[c].pc = "done"
           /\ calls[c].settled = "rejected"
           /\ calls[c].error = "Model \"" \o calls[c].type \o "\" is unknown."
           /\ calls[c].redisCalls = 0
           /\ calls[c].mongoCalls = 0
           /\ calls[c].redisWrites = 0

C2_Witness ==
    \E c \in DOMAIN calls :
        /\ calls[c].op = "set"
        /\ calls[c].type = "Cat"
        /\ calls[c].settled = "rejected"
        /\ models["Dog"] # NoModel
        /\ redisStatus /\ mongooseStatus

\* C3: a set that violates the schema, made with both layers reachable, ends
\* with its promise rejected with the schema error
C3_ViolationRejects ==
    \A c \in DOMAIN calls :
        (ViolatingSet(calls[c]) /\ calls[c].rs /\ calls[c].ms /\ Ended(calls[c]))
        => /\ calls[c].settled = "rejected"
           /\ calls[c].error = mongooseCastCheck(models[calls[c].type],
                                                 calls[c].key, calls[c].value)

\* C4: no step of a set that violates the schema changes the durable store
C4_ViolationKeepsDurable ==
    [][\A c \in DOMAIN calls :
          (StepOf(c) /\ ViolatingSet(calls'[c])) => mongo' = mongo]_vars

C4_Witness ==
    \E c \in DOMAIN calls :
        /\ ViolatingSet(calls[c])
        /\ calls[c].ms
        /\ calls[c].pc = "hung"
        /\ calls[c].lost = WrongTypeMsg(models[calls[c].type], calls[c].key,
                                        parse(calls[c].value))
        /\ mongo[calls[c].type][calls[c].hash].exists

\* C5: no step of a set to an undeclared field changes the fast layer or the
\* durable store
C5_UndeclaredTouchesNothing ==
    [][\A c \in DOMAIN calls :
          (/\ StepOf(c)
           /\ calls'[c].op = "set"
           /\ calls'[c].known
           /\ ~Declared(calls'[c].type, calls'[c].key))
          => (redis' = redis /\ mongo' = mongo)]_vars

\* the fast-layer value of (hash, key) deserializes to the durable value
Agree(type, hash, key) ==
    /\ redis[hash][key] # Absent
    /\ mongo[type][hash].exists
    /\ parse(redis[hash][key]) = mongo[type][hash].fields[key]

\* the step invokes or continues a set on (hash, key)
SetStepOn(hash, key) ==
    \E c \in DOMAIN calls :
        /\ StepOf(c)
        /\ calls'[c].op = "set"
        /\ calls'[c].hash = hash
        /\ calls'[c].key = key

\* C6: the layers agree on (hash, key) when a set made with both layers
\* reachable resolves, and every step that is not of a set on (hash, key)
\* keeps them agreeing
C6_LayersAgreeAfterSet ==
    [][\A type \in TypeNames, hash \in Ids, key \in Fields :
          /\ (\E c \in DOMAIN calls :
                /\ calls[c].pc = "updateOne"
                /\ calls'[c].pc = "done"
                /\ calls'[c].settled = "resolved"
                /\ calls[c].rs /\ calls[c].ms
                /\ calls[c].type = type /\ calls[c].hash = hash /\ calls[c].key = key)
             => Agree(type, hash, key)'
          /\ (Agree(type, hash, key) /\ ~SetStepOn(hash, key))
             => Agree(type, hash, key)']_vars

\* the durable store holds a value for the field of the record
HoldsValue(type, hash, key) ==
    /\ mongo[type][hash].exists
    /\ mongo[type][hash].fields[key] # JSUndefined

\* C7: a get that finds the hash field missing in the fast layer and a value
\* in the durable store leaves the fast layer holding that value, and the
\* get that follows it is resolved after one fast-layer call and no
\* durable-store call; both layers are reachable, so neither answers with an
\* error
C7_ReadThroughFill ==
    \A c \in DOMAIN calls :
        /\ (/\ calls[c].op = "get" /\ Ended(calls[c])
            /\ calls[c].rs /\ calls[c].ms
            /\ ~BackendError(calls[c])
            /\ calls[c].reply = Absent
            /\ calls[c].mongoCalls = 1
            /\ HoldsValue(calls[c].type, calls[c].hash, calls[c].key))
           => /\ calls[c].redisWrites = 1
              /\ redis[calls[c].hash][calls[c].key]
                    = JSString(mongo[calls[c].type][calls[c].hash].fields[calls[c].key].v)
        /\ (/\ calls[c].op = "get" /\ Ended(calls[c])
            /\ calls[c].prev.kind \in {"fill", "miss"}
            /\ HoldsValue(calls[c].type, calls[c].hash, calls[c].key)
            /\ ~BackendError(calls[c]))
           => /\ calls[c].settled = "resolved"
              /\ calls[c].redisCalls = 1
              /\ calls[c].mongoCalls = 0

\* C8: a get made with both layers reachable whose hget finds the field is
\* resolved with the deserialized reply and issues no durable-store call
C8_HitSkipsDurable ==
    \A c \in DOMAIN calls :
        (/\ calls[c].op = "get" /\ Ended(calls[c])
         /\ calls[c].rs /\ calls[c].ms
         /\ calls[c].reply # Absent)
        => /\ calls[c].settled = "resolved"
           /\ calls[c].result = parse(calls[c].reply)
           /\ calls[c].mongoCalls = 0

\* C9: a get made with both layers reachable, neither of which answers with
\* an error, that finds the field neither in the fast layer nor in the
\* durable store resolves to null and writes nothing to the fast layer
C9_AbsentIsNull ==
    \A c \in DOMAIN calls :
        (/\ calls[c].op = "get" /\ Ended(calls[c])
         /\ calls[c].known
         /\ calls[c].rs /\ calls[c].ms
         /\ ~BackendError(calls[c])
         /\ calls[c].redisCalls = 1
         /\ calls[c].reply = Absent
         /\ mongo[calls[c].type][calls[c].hash].fields[calls[c].key] = JSUndefined)
        => /\ calls[c].settled = "resolved"
           /\ calls[c].result = JSNull
           /\ calls[c].redisWrites = 0
           /\ redis[calls[c].hash][calls[c].key] = Absent

C9_Witness ==
    \E c \in DOMAIN calls :
        /\ calls[c].op = "get" /\ Ended(calls[c])
        /\ calls[c].rs /\ calls[c].ms
        /\ calls[c].mongoCalls = 1
        /\ calls[c].result = JSNull
        /\ mongo[calls[c].type][calls[c].hash].exists
        /\ mongo[calls[c].type][calls[c].hash].fields[calls[c].key] = JSUndefined

\* C10: a call that has run as far as it ever will has settled its promise
C10_EveryCallSettles ==
    \A c \in DOMAIN calls : Ended(calls[c]) => calls[c].settled # "pending"

\* the durable store's value for the (type, hash, key) of the call: the
\* field of the record, or null when the record or the field is absent
DurableValue(r) ==
    IF /\ mongo[r.type][r.hash].exists
       /\ mongo[r.type][r.hash].fields[r.key] # JSUndefined
    THEN mongo[r.type][r.hash].fields[r.key]
    ELSE JSNull

\* C11: a get on a registered collection made while the durable store is
\* reachable and the fast layer is not resolves to the durable store's value
\* for (K,F), or to null when there is none; it neither fails nor hangs
C11_DurableOnlyGet ==
    \A c \in DOMAIN calls :
        (/\ calls[c].op = "get" /\ calls[c].known
         /\ calls[c].ms /\ ~calls[c].rs
         /\ Ended(calls[c]))
        => (/\ calls[c].settled = "resolved"
            /\ calls[c].result = DurableValue(calls[c]))

\* C12: a get on a registered collection made while the fast layer is
\* reachable and the durable store is not rejects with "Cannot connect to
\* Mongoose." when (K,F) is not cached, and resolves to the cached value
\* when it is
C12_FastOnlyGet ==
    \A c \in DOMAIN calls :
        (/\ calls[c].op = "get" /\ calls[c].known
         /\ calls[c].rs /\ ~calls[c].ms
         /\ Ended(calls[c]))
        => IF redis[calls[c].hash][calls[c].key] = Absent
           THEN /\ calls[c].settled = "rejected"
                /\ calls[c].error = NoMongooseMsg
           ELSE /\ calls[c].settled = "resolved"
                /\ calls[c].result = parse(redis[calls[c].hash][calls[c].key])

\* C13: a get, getAll or set on a registered collection made while neither
\* layer is reachable rejects with "Client is not connected." and issues no
\* call to the fast layer or to the durable store
C13_NeitherReachable ==
    \A c \in DOMAIN calls :
        (/\ calls[c].op \in {"get", "getAll", "set"} /\ calls[c].known
         /\ ~calls[c].rs /\ ~calls[c].ms)
        => (/\ Ended(calls[c])
            /\ calls[c].settled = "rejected"
            /\ calls[c].error = NotConnectedMsg
            /\ calls[c].redisCalls = 0
            /\ calls[c].mongoCalls = 0
            /\ calls[c].redisWrites = 0)

C13_Witness ==
    \E c \in DOMAIN calls :
        /\ calls[c].op = "set" /\ calls[c].known
        /\ ~calls[c].rs /\ ~calls[c].ms
        /\ calls[c].settled = "rejected"
        /\ calls[c].error = NotConnectedMsg
        /\ redis[calls[c].hash][calls[c].key] = Absent
        /\ ~mongo[calls[c].type][calls[c].hash].exists

\* C14: a set resolves, with true, only after its durable upsert has
\* completed: whenever the promise of a set is resolved, the durable record
\* exists and holds the deserialized value of the call for (K,F)
C14_ResolvedAfterUpsert ==
    \A c \in DOMAIN calls :
        (calls[c].op = "set" /\ calls[c].settled = "resolved")
        => (/\ calls[c].result = JSTrue
            /\ calls[c].mongoCalls = 1
            /\ mongo[calls[c].type][calls[c].hash].exists
            /\ mongo[calls[c].type][calls[c].hash].fields[calls[c].key]
                  = parse(calls[c].value))

C14_Witness ==
    \E c \in DOMAIN calls :
        /\ calls[c].op = "set" /\ calls[c].settled = "resolved"
        /\ calls[c].key = "isBarking" /\ calls[c].value = JSString("true")
        /\ mongo[calls[c].type][calls[c].hash].fields["isBarking"] = JSTrue

\* C15: a set with a native value whose runtime type is the declared type
\* of the field (the boolean true for a Boolean field), made with both
\* layers reachable, passes the type check, resolves with true and stores
\* the value in the durable store
C15_NativeValuePasses ==
    \A c \in DOMAIN calls :
        (/\ calls[c].op = "set" /\ calls[c].known
         /\ calls[c].rs /\ calls[c].ms
         /\ TypeOf(calls[c].value) = "boolean"
         /\ Models[models[calls[c].type]].paths[calls[c].key] = "Boolean"
         /\ Ended(calls[c]))
        => (/\ calls[c].settled = "resolved"
            /\ calls[c].result = JSTrue
            /\ mongo[calls[c].type][calls[c].hash].fields[calls[c].key]
                  = calls[c].value)

\* C16: a getAll on a registered collection made with both layers reachable
\* returns all the fields stored under K: every field that the durable
\* record holds is in the result with its value, whichever layer served it
C16_GetAllReturnsAllFields ==
    \A c \in DOMAIN calls :
        (/\ calls[c].op = "getAll" /\ calls[c].known
         /\ calls[c].rs /\ calls[c].ms
         /\ Ended(calls[c]))
        => (/\ calls[c].settled = "resolved"
            /\ \A f \in Fields :
                  mongo[calls[c].type][calls[c].hash].fields[f] # JSUndefined
                  => calls[c].fields[f] = mongo[calls[c].type][calls[c].hash].fields[f])

\* C17: a getAll that misses the fast layer resolves with the durable
\* record as it is and writes nothing to the fast layer, which still holds
\* no field of K; the get that follows it misses the fast layer and reads
\* the durable store; the layers answer without an error
C17_GetAllMissLeavesCache ==
    \A c \in DOMAIN calls :
        /\ (/\ calls[c].op = "getAll"
            /\ calls[c].redisCalls = 1 /\ calls[c].mongoCalls = 1
            /\ ~BackendError(calls[c])
            /\ Ended(calls[c]))
           => (/\ calls[c].settled = "resolved"
               /\ calls[c].result =
                     (IF mongo[calls[c].type][calls[c].hash].exists
                      THEN JSObject ELSE JSNull)
               /\ calls[c].fields = mongo[calls[c].type][calls[c].hash].fields
               /\ calls[c].redisWrites = 0
               /\ NullHash(redis[calls[c].hash]))
        /\ (calls[c].op = "get" /\ calls[c].prev.kind = "getAll")
           => (/\ calls[c].redisCalls >= 1
               /\ calls[c].reply = Absent
               /\ (Ended(calls[c]) /\ ~BackendError(calls[c]))
                  => calls[c].mongoCalls = 1)

C17_Witness ==
    \E c \in DOMAIN calls :
        /\ calls[c].op = "get" /\ calls[c].prev.kind = "getAll"
        /\ calls[c].prev.value = JSObject
        /\ Ended(calls[c])
        /\ calls[c].mongoCalls = 1
        /\ calls[c].result = JSTrue

\* C18: the readiness signal is given exactly once and only when both
\* layers are reachable: in either order of the two events "ready" has been
\* emitted once and the promise of init() is resolved exactly when
\* redisStatus and mongooseStatus are both true, and neither has happened
\* while one of them is false
C18_ReadyExactlyOnce ==
    /\ readyEmitted = (IF redisStatus /\ mongooseStatus THEN 1 ELSE 0)
    /\ (initPromise = "resolved") <=> (redisStatus /\ mongooseStatus)
    /\ ready <=> (redisStatus /\ mongooseStatus)

\* both events have arrived, the signal has been given once, and a call
\* made after it has been served
C18_Witness ==
    /\ redisStatus /\ mongooseStatus /\ ready
    /\ readyEmitted = 1
    /\ initPromise = "resolved"
    /\ \E c \in DOMAIN calls :
          calls[c].rs /\ calls[c].ms /\ calls[c].settled = "resolved"

\* the model passed to model() last among those of the name
LatestIn(seq, name) ==
    LET idx == {i \in DOMAIN seq : Models[seq[i]].modelName = name}
    IN  IF idx = {} THEN NoModel
        ELSE seq[CHOOSE i \in idx : \A j \in idx : j <= i]

\* the deserialized value has the type the schema of the model declares
TypeMatchesModel(m, key, value) ==
    \/ Models[m].paths[key] = "String" /\ TypeOf(parse(value)) = "string"
    \/ Models[m].paths[key] = "Boolean" /\ TypeOf(parse(value)) = "boolean"

\* C19: once model(M) has returned, the name of M resolves to the model
\* registered last under it: no call made from then on finds the name
\* unknown, every call issues its durable-store operation through that model,
\* and a set is validated against its schema, also after a second
\* registration of the name
C19_LatestModelResolves ==
    [][/\ \A n \in TypeNames :
             LatestIn(passed', n) # NoModel
             => (/\ models'[n] = LatestIn(passed', n)
                 /\ \E i \in DOMAIN modelNames' : modelNames'[i] = n)
       /\ \A c \in DOMAIN calls :
             (StepOf(c) /\ LatestIn(passed, calls'[c].type) # NoModel)
             => (/\ calls'[c].error # UnknownMsg(calls'[c].type)
                 /\ calls'[c].lost # UnknownMsg(calls'[c].type)
                 /\ (/\ calls'[c].pc \in {"findOne", "findAll", "updateOne"}
                     /\ calls[c].pc # calls'[c].pc)
                    => calls'[c].model = LatestIn(passed, calls'[c].type)
                 /\ (/\ calls'[c].op = "set" /\ calls'[c].pc = "updateOne"
                     /\ calls[c].pc # calls'[c].pc)
                    => TypeMatchesModel(LatestIn(passed, calls'[c].type),
                                        calls'[c].key, calls'[c].value)
                 /\ (/\ calls'[c].op = "set" /\ calls'[c].pc = "hung"
                     /\ ~BackendError(calls'[c]))
                    => ~TypeMatchesModel(LatestIn(passed, calls'[c].type),
                                         calls'[c].key, calls'[c].value))
      ]_vars

\* a set of a field that only the later schema declares has resolved
C19_Witness ==
    /\ passed = <<"Dog", "DogV2">>
    /\ \E c \in DOMAIN calls :
          /\ calls[c].op = "set" /\ calls[c].settled = "resolved"
          /\ calls[c].type = "Dog" /\ calls[c].key = "isLoud"
          /\ calls[c].model = "DogV2"
          /\ mongo["Dog"][calls[c].hash].fields["isLoud"] = JSTrue

\* C20: reads of a cached pair are stable: a get that follows, with both
\* layers reachable and no write in between, a get of the same (C,K,F) that
\* was served by the durable store and filled the fast layer returns the
\* same value as that get, whatever the durable value is
C20_ConsecutiveGetsAgree ==
    \A c \in DOMAIN calls :
        (/\ calls[c].op = "get" /\ calls[c].prev.kind = "fill"
         /\ Ended(calls[c]))
        => (/\ calls[c].settled = "resolved"
            /\ calls[c].result = calls[c].prev.value)

\* the call has completed with its promise resolved, both layers having
\* been reachable when it was made
Completed(r) == r.pc = "done" /\ r.settled = "resolved" /\ r.rs /\ r.ms

\* C21: two sets of different valid values on the same (C,K,F) leave the
\* layers in agreement once both have completed, however their fast-layer
\* and durable writes interleaved: the fast-layer value deserializes to the
\* value the durable store holds
C21_ConcurrentSetsConverge ==
    \A c, d \in DOMAIN calls :
        (/\ c # d
         /\ calls[c].op = "set" /\ calls[d].op = "set"
         /\ Completed(calls[c]) /\ Completed(calls[d])
         /\ calls[c].type = calls[d].type /\ calls[c].hash = calls[d].hash
         /\ calls[c].key = calls[d].key
         /\ calls[c].value # calls[d].value)
        => parse(redis[calls[c].hash][calls[c].key])
              = mongo[calls[c].type][calls[c].hash].fields[calls[c].key]

\* C22: a read-through fill does not install an older value over a
\* completed write: once a get that missed the fast layer and filled it and
\* a set of V on the same (C,K,F) have both completed, the fast layer, from
\* which the next get is served, deserializes to V
C22_FillNeverOverwritesSet ==
    \A c, d \in DOMAIN calls :
        (/\ c # d
         /\ calls[c].op = "get" /\ calls[d].op = "set"
         /\ Completed(calls[c]) /\ Completed(calls[d])
         /\ calls[c].redisWrites > 0
         /\ calls[c].type = calls[d].type /\ calls[c].hash = calls[d].hash
         /\ calls[c].key = calls[d].key)
        => parse(redis[calls[c].hash][calls[c].key]) = parse(calls[d].value)

\* no call is under way
Quiescent == \A c \in DOMAIN calls : calls[c].pc \in {"idle", "done", "hung"}

\* C23: from an empty fast layer on, after any sequence of get, getAll and
\* set calls every value the fast layer holds for (id, field) deserializes
\* to a value the durable store holds or has held for that pair. No field is
\* ever removed from a record, so a pair that has held a value holds one:
\* a cached pair is a pair some collection holds a value for
C23_CacheEchoesDurable ==
    Quiescent
    => \A h \in Ids, f \in Fields :
           redis[h][f] # Absent
           => \E t \in TypeNames : mongo[t][h].fields[f] # JSUndefined

\* the call is a set on a registered collection made with both layers
\* reachable
SetOnBoth(r) == r.op = "set" /\ r.known /\ r.rs /\ r.ms

\* C24: a set made with both layers reachable takes its steps in one order:
\* the fast-layer write is issued and awaited, then the value is validated,
\* then the durable upsert is issued, and the promise resolves after it;
\* each step happens at most once, and the fast-layer write stays when the
\* validation or the durable write fails
C24_SetStepOrder ==
    [][\A c \in DOMAIN calls :
          (StepOf(c) /\ SetOnBoth(calls'[c]))
          => (/\ calls'[c].redisCalls <= 1
              /\ calls'[c].redisWrites <= 1
              /\ calls'[c].mongoCalls <= 1
              /\ calls'[c].pc = "hset"
                 => (calls'[c].redisWrites = 1 /\ calls'[c].mongoCalls = 0)
              /\ (calls'[c].pc = "updateOne" /\ calls[c].pc # "updateOne")
                 => (/\ calls[c].pc = "hset"
                     /\ calls'[c].redisWrites = 1
                     /\ TypeMatchesModel(calls'[c].model, calls'[c].key,
                                         calls'[c].value))
              /\ (calls'[c].pc = "hung" /\ ~BackendError(calls'[c]))
                 => (/\ calls[c].pc = "hset"
                     /\ calls'[c].redisWrites = 1 /\ calls'[c].mongoCalls = 0
                     /\ ~TypeMatchesModel(models[calls'[c].type], calls'[c].key,
                                          calls'[c].value))
              /\ (calls'[c].pc = "hung" /\ BackendError(calls'[c]))
                 => (/\ calls[c].pc = "updateOne"
                     /\ calls'[c].redisWrites = 1 /\ calls'[c].mongoCalls = 1)
              /\ mongo' # mongo
                 => (/\ calls[c].pc = "updateOne" /\ ~calls[c].executed
                     /\ calls'[c].executed)
              /\ calls'[c].settled = "resolved"
                 => (calls[c].pc = "updateOne" /\ calls[c].executed)
              /\ calls[c].pc \in {"hset", "updateOne"}
                 => (/\ redis' = redis
                     /\ redis[calls[c].hash][calls[c].key]
                           = JSString(JSToString(calls[c].value))))
      ]_vars

\* a set whose validation failed and whose fast-layer write is still there
C24_Witness ==
    \E c \in DOMAIN calls :
        /\ SetOnBoth(calls[c]) /\ calls[c].pc = "hung"
        /\ calls[c].key = "isBarking" /\ calls[c].value = JSString("Rex")
        /\ redis[calls[c].hash]["isBarking"] = JSString("Rex")
        /\ mongo[calls[c].type][calls[c].hash].fields["isBarking"] = JSUndefined

\* C25: records of different collections do not leak into each other
\* through the cache: with both layers reachable, a get(C2,K,F) that follows
\* a set(C1,K,F,V) on another registered collection C1 resolves to null, not
\* to V, when the durable store of C2 holds no value for (K,F)
C25_NoLeakAcrossCollections ==
    \A c \in DOMAIN calls :
        (/\ calls[c].op = "get" /\ calls[c].prev.kind = "otherSet"
         /\ calls[c].known /\ calls[c].rs /\ calls[c].ms
         /\ Ended(calls[c])
         /\ mongo[calls[c].type][calls[c].hash].fields[calls[c].key] = JSUndefined)
        => (/\ calls[c].settled = "resolved"
            /\ calls[c].result = JSNull)

\* C29: a set(C,K,F,V) changes at most the entry (K,F) in each layer: every
\* other (id, field) pair of the fast layer, every other field of record K
\* and every other record of every collection stay as they are, and the
\* durable write leaves record K existing and holding the deserialized V in F
C29_SetFrame ==
    [][\A c \in DOMAIN calls :
          (StepOf(c) /\ calls'[c].op = "set")
          => (/\ \A h \in DOMAIN redis, f \in Fields :
                    (h # calls'[c].hash \/ f # calls'[c].key)
                    => redis'[h][f] = redis[h][f]
              /\ \A t \in TypeNames, h \in DOMAIN redis :
                    (t # calls'[c].type \/ h # calls'[c].hash)
                    => mongo'[t][h] = mongo[t][h]
              /\ \A f \in Fields :
                    f # calls'[c].key
                    => mongo'[calls'[c].type][calls'[c].hash].fields[f]
                          = mongo[calls'[c].type][calls'[c].hash].fields[f]
              /\ (mongo' # mongo \/ calls'[c].settled = "resolved")
                 => (/\ mongo'[calls'[c].type][calls'[c].hash].exists
                     /\ mongo'[calls'[c].type][calls'[c].hash].fields[calls'[c].key]
                           = parse(calls'[c].value)))
      ]_vars

\* a set has added isBarking to a record that held name, next to a second
\* record that is cached and stored
C29_Witness ==
    \E c \in DOMAIN calls :
        /\ calls[c].op = "set" /\ calls[c].settled = "resolved"
        /\ calls[c].type = "Dog" /\ calls[c].hash = "dog-1"
        /\ calls[c].key = "isBarking"
        /\ mongo["Dog"]["dog-1"].fields["name"] = JSString("Rex")
        /\ mongo["Dog"]["dog-1"].fields["isBarking"] = JSTrue
        /\ mongo["Dog"]["dog-2"].exists
        /\ redis["dog-2"]["name"] = JSString("Rex")

\* C26: a get on a registered collection made with both layers reachable
\* resolves to null only if (K,F) is absent from the fast layer and from the
\* durable store; a stored value such as false, 0 or the empty string is
\* returned as that value
C26_NullOnlyIfAbsent ==
    \A c \in DOMAIN calls :
        (/\ calls[c].op = "get" /\ calls[c].known
         /\ calls[c].rs /\ calls[c].ms
         /\ Ended(calls[c]))
        => (/\ calls[c].settled = "resolved"
            /\ calls[c].result = JSNull
               => (/\ redis[calls[c].hash][calls[c].key] = Absent
                   /\ mongo[calls[c].type][calls[c].hash].fields[calls[c].key]
                         = JSUndefined))

\* what a string deserializes to: the value its JSON text denotes, or the
\* string itself when it is not JSON text
Deserialized(x) ==
    IF JSToString(x) \in DOMAIN JSONTexts THEN JSONTexts[JSToString(x)] ELSE x

\* C27: the type check accepts a field and a string value exactly when the
\* schema declares the field and the deserialized value has the declared
\* kind: a String field takes what deserializes to a string, a Boolean field
\* what deserializes to a boolean ("true", not "notabool"), and an
\* undeclared field takes nothing
C27_CastCheckAccepts ==
    (fn.pc = "checked" /\ TypeOf(fn.value) = "string")
    => ((fn.msg = "")
        <=> \/ /\ Models[fn.model].paths[fn.field] = "String"
               /\ TypeOf(Deserialized(fn.value)) = "string"
            \/ /\ Models[fn.model].paths[fn.field] = "Boolean"
               /\ TypeOf(Deserialized(fn.value)) = "boolean")

C27_Witness ==
    /\ fn.pc = "checked"
    /\ fn.model = "Dog" /\ fn.field = "isBarking"
    /\ fn.value = JSString("true")
    /\ fn.msg = ""

\* C28: serialization round-trips: for every value of the value set,
\* strings, numbers, booleans and mappings, stringify returns a string,
\* returns a string unchanged, and parse of what it returned is the value
C28_RoundTrip ==
    /\ fn.pc = "serialized"
       => (/\ TypeOf(fn.out) = "string"
           /\ TypeOf(fn.value) = "string" => fn.out = fn.value)
    /\ fn.pc = "parsed" => fn.out = fn.value

\* C30: a rejection halts the call: once a get, getAll or set has rejected
\* its promise with "Client is not connected." or "Cannot connect to
\* Mongoose.", the call has run as far as it ever will, has issued no call
\* to the fast layer or the durable store, and its promise stays rejected
C30_RejectionHalts ==
    \A c \in DOMAIN calls :
        (/\ calls[c].op \in {"get", "getAll", "set"}
         /\ calls[c].settled = "rejected"
         /\ calls[c].error \in {NotConnectedMsg, NoMongooseMsg})
        => (/\ Ended(calls[c])
            /\ calls[c].redisCalls = 0
            /\ calls[c].redisWrites = 0
            /\ calls[c].mongoCalls = 0
            /\ calls[c].result = JSUndefined)

\* a getAll that went on after its rejection and was stopped by the test
\* of getAllFromMongoose
C30_Witness ==
    \E c \in DOMAIN calls :
        /\ calls[c].op = "getAll"
        /\ calls[c].settled = "rejected"
        /\ calls[c].error = NotConnectedMsg
        /\ calls[c].lost = InnerNotConnectedMsg
        /\ inited

\* C31: in every reachable state ready equals redisStatus and
\* mongooseStatus, and each of the three flags is monotone: once true it is
\* true after every later connection event and operation
C31_FlagsMonotone ==
    [][/\ ready <=> (redisStatus /\ mongooseStatus)
       /\ ready' <=> (redisStatus' /\ mongooseStatus')
       /\ ready => ready'
       /\ redisStatus => redisStatus'
       /\ mongooseStatus => mongooseStatus'
      ]_vars

\* the three flags are still true after a second init() and a call that
\* has been served
C31_Witness ==
    /\ ready /\ redisStatus /\ mongooseStatus
    /\ inits = 2
    /\ \E c \in DOMAIN calls :
          calls[c].op = "get" /\ calls[c].settled = "resolved"

\* C32: no cache entry is ever deleted: an (id, field) pair that the fast
\* layer holds is held after every step of every get, getAll and set; its
\* value may change
C32_NoEntryDeleted ==
    [][\A h \in DOMAIN redis, f \in Fields :
          redis[h][f] # Absent => redis'[h][f] # Absent
      ]_vars

\* a set has overwritten the entry of one field next to the entry of
\* another, which is still there
C32_Witness ==
    \E c \in DOMAIN calls :
        /\ calls[c].op = "set" /\ calls[c].key = "name"
        /\ calls[c].settled = "resolved"
        /\ redis[calls[c].hash]["name"] = JSString("Rex")
        /\ redis[calls[c].hash]["isBarking"] = JSString("true")
        /\ mongo[calls[c].type][calls[c].hash].fields["isBarking"] = JSTrue

\* C33: in the compiled build a model passed to model() is resolvable once
\* the client is ready, whether it was passed before or after "ready" was
\* emitted: its name is in modelNames and this.models holds it, and no get,
\* getAll or set made on the ready client finds the name unknown
C33_DistModelResolves ==
    [][/\ ready'
          => \A n \in TypeNames :
                LatestIn(passed', n) # NoModel
                => (/\ models'[n] = LatestIn(passed', n)
                    /\ \E i \in DOMAIN modelNames' : modelNames'[i] = n)
       /\ \A c \in DOMAIN calls :
             (StepOf(c) /\ ready /\ LatestIn(passed, calls'[c].type) # NoModel)
             => (/\ calls'[c].error # UnknownMsg(calls'[c].type)
                 /\ calls'[c].lost # UnknownMsg(calls'[c].type))
      ]_vars

============================================================================
